---------------------------- MODULE Spec2Model ----------------------------
(***************************************************************************)
(* Model of dropout_dashboard_extended.py: one run of main() over the      *)
(* uploaded CSV files (read, outer-merge on StudentID, fill defaults, or    *)
(* fall back to the seeded synthetic generator), the row-wise risk rule,    *)
(* the sidebar filters and the e-mail notification loop.                    *)
(*                                                                         *)
(* A DataFrame is [cols |-> set of column names, rows |-> sequence of       *)
(* rows], a row being a function from the frame's columns to cell values;   *)
(* the position of a row in the sequence is its index label.  A missing     *)
(* cell (NaN) is -1 in a numeric column and "NaN" in a text column.  A      *)
(* raised exception is the value [raised |-> <exception name>].             *)
(* StudentIDs are modelled by the integers that number them.                *)
(***************************************************************************)
EXTENDS Integers, Sequences, FiniteSets, TLC

VARIABLES
    attendance_file,    \* the three st.sidebar.file_uploader values
    test_scores_file,
    fee_payment_file,
    data,               \* the DataFrame main() works on
    filtered_data,      \* index labels of data kept by the sidebar filters
    high_risk_students, \* index labels of the rows the loop iterates over
    button_pressed,     \* what st.button returned in this run
    config,             \* the five e-mail configuration inputs
    sends,              \* send_email calls made so far: [idx, ok]
    sent_count,
    ui,                 \* st.error / st.info / st.success / st.write calls
    pc,                 \* position of the run inside main()
    rng,                \* state of numpy's global pseudo-random generator
    draws,              \* draws made elsewhere since the generator last ran
    first_output,       \* the first call of generate_student_data: [n, from, data]
    last_output,        \* its latest call: [n, from, data]
    row,                \* the record handed to calculate_risk
    risk                \* the label calculate_risk returned for row

vars == <<attendance_file, test_scores_file, fee_payment_file, data,
          filtered_data, high_risk_students, button_pressed, config, sends,
          sent_count, ui, pc, rng, draws, first_output, last_output, row, risk>>

uploads == <<attendance_file, test_scores_file, fee_payment_file>>

\* the variables of the generator runs and of the risk-rule runs
aside == <<draws, first_output, last_output, row, risk>>

---------------------------------------------------------------------------
(* Bounds of the model *)

\* StudentIDs that occur in the uploaded tables of the reconciliation runs
MaxIDs == 2

\* largest number of rows of an uploaded table in the reconciliation runs
MaxRows == 2

\* population of the dashboard runs: rows of the synthetic dataset and of the
\* largest uploaded table (the source sets NUM_STUDENTS = 1000)
MaxStudents == 3

NUM_STUDENTS == MaxStudents

STANDARDS == <<"1", "2", "3", "4", "5", "6", "7", "8", "9", "10", "11", "12">>

DIVISIONS == <<"A", "B", "C", "D">>

---------------------------------------------------------------------------
(* Cells, rows and frames *)

StringCols == {"Name", "Standard", "Division"}

NaN(c) == IF c \in StringCols THEN "NaN" ELSE -1

isna(c, v) == v = NaN(c)

NoData == [cols |-> {}, rows |-> <<>>]

Raised(e) == [raised |-> e]

IsRaised(x) == "raised" \in DOMAIN x

RECURSIVE Concat(_, _, _)
\* f[lo] \o f[lo+1] \o ... \o f[hi], f a function to sequences
Concat(f, lo, hi) == IF lo > hi THEN <<>> ELSE f[lo] \o Concat(f, lo + 1, hi)

---------------------------------------------------------------------------
(* The uploaded CSV files.  A file is [kind |-> "none"] when nothing was    *)
(* uploaded, or [kind |-> "csv", parses, cols, rows]: parses says whether    *)
(* pd.read_csv accepts the bytes, cols and rows are the table it yields.     *)
(* The tables are cut from one fixed register of students: each table       *)
(* holds, for the StudentIDs it lists, that student's values, and may lack   *)
(* one column.  Every table has at least one row, and no two tables share a *)
(* column other than StudentID.                                             *)

NoFile == [kind |-> "none"]

Unparseable == [kind |-> "csv", parses |-> FALSE, cols |-> {}, rows |-> <<>>]

AttendanceCols == {"StudentID", "Name", "Standard", "Division", "Attendance%", "Attempts"}

TestScoresCols == {"StudentID", "Test1_Score", "Test2_Score", "Test3_Score"}

FeePaymentCols == {"StudentID", "Fee_Delay_Days"}

\* the register: the values student id has in each of the three tables
Register(id) ==
    [ StudentID |-> id,
      Name |-> "Student_" \o ToString(id),
      Standard |-> IF id % 2 = 1 THEN "1" ELSE "2",
      Division |-> IF id % 3 = 0 THEN "B" ELSE "A" ] @@
    ("Attendance%" :> CASE id % 3 = 1 -> 60 [] id % 3 = 2 -> 70 [] OTHER -> 80) @@
    ("Attempts" :> IF id % 3 = 1 THEN 4 ELSE 2) @@
    ("Test1_Score" :> IF id % 3 = 1 THEN 50 ELSE 70) @@
    ("Test2_Score" :> 60) @@
    ("Test3_Score" :> IF id % 3 = 1 THEN 70 ELSE 50) @@
    ("Fee_Delay_Days" :> IF id % 3 = 1 THEN 5 ELSE 20)

\* the CSV table with columns cols listing the StudentIDs of the sequence ids
Table(cols, ids) ==
    [ kind |-> "csv", parses |-> TRUE, cols |-> cols,
      rows |-> [k \in DOMAIN ids |-> [c \in cols |-> Register(ids[k])[c]]] ]

\* non-empty non-decreasing sequences of StudentIDs 1..n of length at most len
IdLists(n, len) ==
    { s \in UNION { [1..k -> 1..n] : k \in 1..len } :
        \A k \in 1..(Len(s) - 1) : s[k] <= s[k + 1] }

\* the sequences <<1>>, <<1, 2>>, ..., <<1, ..., n>>
Prefixes(n) == { [k \in 1..m |-> k] : m \in 1..n }

\* what the user may upload for a table with columns cols: nothing, bytes
\* read_csv rejects, or a table listing ids that lacks at most one of drop
Uploads(cols, drop, idLists) ==
    {NoFile, Unparseable} \cup
    { Table(cols \ d, ids) : d \in {{}} \cup {{c} : c \in drop}, ids \in idLists }

---------------------------------------------------------------------------
(* pandas: read_csv, DataFrame.merge(how='outer'), DataFrame.fillna         *)

read_csv(file) ==
    IF file.parses THEN [cols |-> file.cols, rows |-> file.rows]
    ELSE Raised("ParserError")

\* the merge key values of a frame
Keys(df) == { df.rows[k]["StudentID"] : k \in DOMAIN df.rows }

\* the rows of df with key id, in the frame's order
RowsOf(df, id) == SelectSeq(df.rows, LAMBDA r : r["StudentID"] = id)

\* columns of the merged frame: an overlapping non-key column is kept twice,
\* suffixed _x (left) and _y (right)
MergedName(c, overlap, suffix) == IF c \in overlap THEN c \o suffix ELSE c

\* the columns of left.merge(right)
MergedCols(lcols, rcols) ==
    LET overlap == (lcols \cap rcols) \ {"StudentID"}
    IN  {"StudentID"} \cup
        { MergedName(c, overlap, "_x") : c \in lcols \ {"StudentID"} } \cup
        { MergedName(c, overlap, "_y") : c \in rcols \ {"StudentID"} }

\* one row of the merged frame from a left row and a right row; side says
\* which of the two exists ("both", "left", "right")
MergedRow(l, r, lcols, rcols, side, id) ==
    LET overlap == (lcols \cap rcols) \ {"StudentID"}
    IN  [ mc \in MergedCols(lcols, rcols) |->
            IF mc = "StudentID" THEN id
            ELSE IF mc \in lcols \ rcols
            THEN IF side = "right" THEN NaN(mc) ELSE l[mc]
            ELSE IF mc \in rcols \ lcols
            THEN IF side = "left" THEN NaN(mc) ELSE r[mc]
            ELSE IF \E c \in overlap : c \o "_x" = mc
            THEN IF side = "right" THEN NaN(mc)
                 ELSE l[CHOOSE c \in overlap : c \o "_x" = mc]
            ELSE IF side = "left" THEN NaN(mc)
                 ELSE r[CHOOSE c \in overlap : c \o "_y" = mc] ]

\* the merged rows for key id: the product of the left and the right rows
\* with that key, or the rows of the one side padded with NaN
MergedGroup(left, right, id) ==
    LET L == RowsOf(left, id)
        R == RowsOf(right, id)
    IN  IF L # <<>> /\ R # <<>>
        THEN [ n \in 1..(Len(L) * Len(R)) |->
                 MergedRow(L[((n - 1) \div Len(R)) + 1], R[((n - 1) % Len(R)) + 1],
                           left.cols, right.cols, "both", id) ]
        ELSE IF L # <<>>
        THEN [ n \in 1..Len(L) |->
                 MergedRow(L[n], L[n], left.cols, right.cols, "left", id) ]
        ELSE [ n \in 1..Len(R) |->
                 MergedRow(R[n], R[n], left.cols, right.cols, "right", id) ]

\* left.merge(right, on='StudentID', how='outer'): KeyError when a frame has
\* no StudentID column; otherwise the union of the keys, in key order
merge(left, right) ==
    IF "StudentID" \notin left.cols \/ "StudentID" \notin right.cols
    THEN Raised("KeyError")
    ELSE LET keys == Keys(left) \cup Keys(right)
             lo == IF keys = {} THEN 1 ELSE CHOOSE k \in keys : \A j \in keys : k <= j
             hi == IF keys = {} THEN 0 ELSE CHOOSE k \in keys : \A j \in keys : k >= j
         IN  [ cols |-> MergedCols(left.cols, right.cols),
               rows |-> Concat([id \in lo..hi |-> MergedGroup(left, right, id)], lo, hi) ]

\* the dictionary handed to data.fillna
FillValues ==
    ("Attendance%" :> 0) @@ ("Attempts" :> 1) @@ ("Fee_Delay_Days" :> 0) @@
    ("Standard" :> "Unknown") @@ ("Division" :> "Unknown") @@ ("Name" :> "Unknown") @@
    ("Test1_Score" :> 0) @@ ("Test2_Score" :> 0) @@ ("Test3_Score" :> 0)

\* df.fillna(values): in the columns the dictionary names and the frame has,
\* a missing cell takes the dictionary's value; no column is added
fillna(df, values) ==
    [ cols |-> df.cols,
      rows |-> [ k \in DOMAIN df.rows |->
                   [ c \in df.cols |->
                       IF c \in DOMAIN values /\ isna(c, df.rows[k][c])
                       THEN values[c] ELSE df.rows[k][c] ] ] ]

\* the body of the try block of main(): the three reads, the two merges and
\* the fill; the first exception raised ends it
Reconcile(af, tf, ff) ==
    LET attendance_df == read_csv(af)
        test_scores_df == read_csv(tf)
        fee_payment_df == read_csv(ff)
    IN  IF IsRaised(attendance_df) THEN attendance_df
        ELSE IF IsRaised(test_scores_df) THEN test_scores_df
        ELSE IF IsRaised(fee_payment_df) THEN fee_payment_df
        ELSE LET m1 == merge(attendance_df, test_scores_df)
             IN  IF IsRaised(m1) THEN m1
                 ELSE LET m2 == merge(m1, fee_payment_df)
                      IN  IF IsRaised(m2) THEN m2 ELSE fillna(m2, FillValues)

---------------------------------------------------------------------------
(* numpy's global generator, abstracted to a linear congruential generator: *)
(* np.random.seed sets the state, every draw advances it and reads it.      *)

RngModulus == 4096

RngMultiplier == 1229

RngIncrement == 1

SEED == 42

seed(n) == n % RngModulus

Advance(state) == (RngMultiplier * state + RngIncrement) % RngModulus

RECURSIVE Stream(_, _)
\* the states the generator passes through in k draws from state
Stream(state, k) ==
    IF k = 0 THEN <<>>
    ELSE LET next == Advance(state) IN <<next>> \o Stream(next, k - 1)

\* the number a draw that leaves the generator in state yields, in 0..bound-1
Draw(state, bound) == (state \div 16) % bound

FeeDelayChoices == <<0, 0, 0, 10, 20, 30>>

\* lines 15-37: the frame built from the draws that follow generator state
\* s0, and the state the generator is left in.  The arrays are drawn one
\* after the other, num_students values each (three per student for the
\* test scores).
GenerateFrom(s0, num_students) ==
    LET n == num_students
        stream == Stream(s0, 8 * n)
    IN  [ data |->
            [ cols |-> AttendanceCols \cup TestScoresCols \cup FeePaymentCols,
              rows |-> [ i \in 1..n |->
                  [ StudentID |-> i,
                    Name |-> "Student_" \o ToString(i),
                    Standard |-> STANDARDS[Draw(stream[i], Len(STANDARDS)) + 1],
                    Division |-> DIVISIONS[Draw(stream[n + i], Len(DIVISIONS)) + 1] ] @@
                  ("Attendance%" :> 50 + Draw(stream[2 * n + i], 51)) @@
                  ("Attempts" :> 1 + Draw(stream[3 * n + i], 5)) @@
                  ("Test1_Score" :> 30 + Draw(stream[4 * n + 3 * (i - 1) + 1], 71)) @@
                  ("Test2_Score" :> 30 + Draw(stream[4 * n + 3 * (i - 1) + 2], 71)) @@
                  ("Test3_Score" :> 30 + Draw(stream[4 * n + 3 * (i - 1) + 3], 71)) @@
                  ("Fee_Delay_Days" :>
                      FeeDelayChoices[Draw(stream[7 * n + i], Len(FeeDelayChoices)) + 1]) ] ],
          rng |-> stream[8 * n] ]

\* the generator without np.random.seed(42): the draws continue from `state`
generate_student_data_unseeded(state, num_students) == GenerateFrom(state, num_students)

\* generate_student_data(num_students) called with the generator in `state`:
\* np.random.seed(42) first, so the draws do not depend on `state`
generate_student_data(state, num_students) == GenerateFrom(seed(SEED), num_students)

---------------------------------------------------------------------------
(* The risk rule *)

\* a < b on cells: a comparison with a missing value is false
Less(a, b) == a # -1 /\ b # -1 /\ a < b

\* calculate_risk with the attendance test written <= 75
calculate_risk_le75(r) ==
    IF "Attendance%" \notin DOMAIN r \/ "Attempts" \notin DOMAIN r
       \/ "Test3_Score" \notin DOMAIN r \/ "Test2_Score" \notin DOMAIN r
    THEN "KeyError"
    ELSE IF Less(r["Test3_Score"], r["Test2_Score"]) /\ "Test1_Score" \notin DOMAIN r
    THEN "KeyError"
    ELSE IF "Fee_Delay_Days" \notin DOMAIN r
    THEN "KeyError"
    ELSE LET risk_score ==
                 (IF r["Attendance%"] <= 75 THEN 2 ELSE 0)
               + (IF Less(3, r["Attempts"]) THEN 2 ELSE 0)
               + (IF Less(r["Test3_Score"], r["Test2_Score"])
                     /\ Less(r["Test2_Score"], r["Test1_Score"]) THEN 1 ELSE 0)
               + (IF Less(15, r["Fee_Delay_Days"]) THEN 1 ELSE 0)
         IN  IF risk_score >= 4 THEN "High"
             ELSE IF risk_score >= 2 THEN "Medium"
             ELSE "Low"

\* calculate_risk(row): the label, or "KeyError" when the row lacks a column
\* the rule reads.  Test1_Score is read only when Test3_Score < Test2_Score
\* (the chained comparison stops at its first false link).
calculate_risk(r) ==
    IF "Attendance%" \notin DOMAIN r \/ "Attempts" \notin DOMAIN r
       \/ "Test3_Score" \notin DOMAIN r \/ "Test2_Score" \notin DOMAIN r
    THEN "KeyError"
    ELSE IF Less(r["Test3_Score"], r["Test2_Score"]) /\ "Test1_Score" \notin DOMAIN r
    THEN "KeyError"
    ELSE IF "Fee_Delay_Days" \notin DOMAIN r
    THEN "KeyError"
    ELSE LET risk_score ==
                 (IF Less(r["Attendance%"], 75) THEN 2 ELSE 0)
               + (IF Less(3, r["Attempts"]) THEN 2 ELSE 0)
               + (IF Less(r["Test3_Score"], r["Test2_Score"])
                     /\ Less(r["Test2_Score"], r["Test1_Score"]) THEN 1 ELSE 0)
               + (IF Less(15, r["Fee_Delay_Days"]) THEN 1 ELSE 0)
         IN  IF risk_score >= 4 THEN "High"
             ELSE IF risk_score >= 2 THEN "Medium"
             ELSE "Low"

---------------------------------------------------------------------------
(* main() *)

Msg(kind, text, cause, idx) == [kind |-> kind, text |-> text, cause |-> cause, idx |-> idx]

NoConfig ==
    [ smtp_server |-> "", smtp_port |-> 0, sender_email |-> "",
      sender_password |-> "", mentor_email |-> "" ]

NoCall == [n |-> 0, from |-> 0, data |-> NoData]

\* nothing uploaded
NoUploads ==
    /\ attendance_file = NoFile
    /\ test_scores_file = NoFile
    /\ fee_payment_file = NoFile

\* main() has not started
RunStart ==
    /\ data = NoData
    /\ filtered_data = <<>>
    /\ high_risk_students = <<>>
    /\ button_pressed = FALSE
    /\ config = NoConfig
    /\ sends = <<>>
    /\ sent_count = 0
    /\ ui = <<>>
    /\ pc = "start"

\* the generator has not been called, and is in the state np.random.seed(0)
\* leaves
GeneratorStart ==
    /\ rng = seed(0)
    /\ draws = 0
    /\ first_output = NoCall
    /\ last_output = NoCall

\* calculate_risk has not been called
NoRecord ==
    /\ row = <<>>
    /\ risk = ""

\* a file_uploader value in a condition: None is false, an upload is true
Truthy(file) == file.kind # "none"

\* a handler that takes only the parser's errors
ExceptParserErrorOnly(e) == e = "ParserError"

\* "except Exception as e": the exceptions the handler of the try block takes
ExceptException(e) == TRUE

\* lines 88-118: merge the uploads, or fall back to the synthetic dataset;
\* an exception the handler does not take leaves main()
Load ==
    /\ pc = "start"
    /\ LET synthetic == generate_student_data(rng, NUM_STUDENTS)
       IN  IF Truthy(attendance_file) /\ Truthy(test_scores_file) /\ Truthy(fee_payment_file)
           THEN LET merged == Reconcile(attendance_file, test_scores_file, fee_payment_file)
                IN  IF ~IsRaised(merged)
                    THEN /\ data' = merged
                         /\ ui' = ui \o
                              << Msg("success", "Data files uploaded and merged successfully.", "", 0) >>
                         /\ rng' = rng
                         /\ pc' = "loaded"
                    ELSE IF ExceptException(merged.raised)
                    THEN /\ ui' = ui \o
                              << Msg("error", "Error processing uploaded files", merged.raised, 0),
                                 Msg("info", "Using synthetic data instead.", "", 0) >>
                         /\ data' = synthetic.data
                         /\ rng' = synthetic.rng
                         /\ pc' = "loaded"
                    ELSE /\ pc' = "crashed"
                         /\ UNCHANGED <<data, ui, rng>>
           ELSE /\ ui' = ui \o
                     << Msg("info", "Upload all three data files or use synthetic data.", "", 0) >>
                /\ data' = synthetic.data
                /\ rng' = synthetic.rng
                /\ pc' = "loaded"
    /\ UNCHANGED <<uploads, filtered_data, high_risk_students, button_pressed,
                   config, sends, sent_count, aside>>

\* line 121: data['Risk_Level'] = data.apply(calculate_risk, axis=1); a
\* KeyError raised for a row leaves main()
Classify ==
    /\ pc = "loaded"
    /\ IF \E k \in DOMAIN data.rows : calculate_risk(data.rows[k]) = "KeyError"
       THEN /\ pc' = "crashed"
            /\ data' = data
       ELSE /\ pc' = "classified"
            /\ data' = [ cols |-> data.cols \cup {"Risk_Level"},
                         rows |-> [ k \in DOMAIN data.rows |->
                                      [ c \in data.cols \cup {"Risk_Level"} |->
                                          IF c = "Risk_Level"
                                          THEN calculate_risk(data.rows[k])
                                          ELSE data.rows[k][c] ] ] ]
    /\ UNCHANGED <<uploads, filtered_data, high_risk_students, button_pressed,
                   config, sends, sent_count, ui, rng, aside>>

risk_levels == {"Low", "Medium", "High"}

display_cols ==
    {"StudentID", "Name", "Standard", "Division", "Attendance%", "Attempts",
     "Test1_Score", "Test2_Score", "Test3_Score", "Fee_Delay_Days", "Risk_Level"}

\* the values of column c in frame df
Unique(df, c) == { df.rows[k][c] : k \in DOMAIN df.rows }

\* lines 133-137: the index labels of the rows of df whose Standard, Division
\* and Risk_Level are among the selected values, in the frame's order
FilterRows(df, selected_standard, selected_division, selected_risk) ==
    SelectSeq([k \in DOMAIN df.rows |-> k],
              LAMBDA k : /\ df.rows[k]["Standard"] \in selected_standard
                         /\ df.rows[k]["Division"] \in selected_division
                         /\ df.rows[k]["Risk_Level"] \in selected_risk)

\* lines 123-154: the sidebar filters, with whatever the user has selected
\* among the values on offer, then the table and the chart; a KeyError for a
\* column the frame lacks leaves main()
Filter ==
    /\ pc = "classified"
    /\ IF "Standard" \notin data.cols \/ "Division" \notin data.cols
       THEN /\ pc' = "crashed"
            /\ UNCHANGED <<filtered_data, ui>>
       ELSE \E selected_standard \in SUBSET Unique(data, "Standard"),
               selected_division \in SUBSET Unique(data, "Division"),
               selected_risk \in SUBSET risk_levels :
              /\ filtered_data' =
                   FilterRows(data, selected_standard, selected_division, selected_risk)
              /\ ui' = Append(ui, Msg("write", "Showing students", "", Len(filtered_data')))
              /\ pc' = IF display_cols \subseteq data.cols THEN "filtered" ELSE "crashed"
    /\ UNCHANGED <<uploads, data, high_risk_students, button_pressed, config, sends,
                   sent_count, rng, aside>>

\* what the five configuration inputs may hold: the text inputs a string,
\* possibly empty, the number input a port, possibly 0
Configs ==
    [ smtp_server : {"", "smtp.gmail.com"}, smtp_port : {0, 465},
      sender_email : {"", "sender@school.example"}, sender_password : {"", "secret"},
      mentor_email : {"", "mentor@school.example"} ]

\* the check of line 166 with mentor_email left out of the list
AllFilledButMentor(cfg) ==
    /\ cfg.smtp_server # ""
    /\ cfg.smtp_port # 0
    /\ cfg.sender_email # ""
    /\ cfg.sender_password # ""

\* line 166: all([smtp_server, smtp_port, sender_email, sender_password, mentor_email])
AllFilled(cfg) ==
    /\ cfg.smtp_server # ""
    /\ cfg.smtp_port # 0
    /\ cfg.sender_email # ""
    /\ cfg.sender_password # ""
    /\ cfg.mentor_email # ""

\* the selection of line 169 written != 'Low'
NotLowRisk(df, view) == SelectSeq(view, LAMBDA k : df.rows[k]["Risk_Level"] # "Low")

\* the selection of line 169 taken from data instead of filtered_data
HighRiskOfData(df, view) ==
    SelectSeq([k \in DOMAIN df.rows |-> k], LAMBDA k : df.rows[k]["Risk_Level"] = "High")

\* line 169: filtered_data[filtered_data['Risk_Level'] == 'High'], as index
\* labels of df
HighRisk(df, view) == SelectSeq(view, LAMBDA k : df.rows[k]["Risk_Level"] = "High")

\* lines 156-172: the configuration inputs are read and the button is
\* pressed; the configuration is checked, then the high-risk rows of the
\* filtered view are selected
PressButton ==
    /\ pc = "filtered"
    /\ button_pressed' = TRUE
    /\ \E cfg \in Configs :
         /\ config' = cfg
         /\ IF ~AllFilled(cfg)
            THEN /\ ui' = Append(ui, Msg("error", "Please fill all email configuration fields.", "", 0))
                 /\ pc' = "done"
                 /\ UNCHANGED <<high_risk_students, sent_count>>
            ELSE /\ high_risk_students' = HighRisk(data, filtered_data)
                 /\ IF high_risk_students' = <<>>
                    THEN /\ ui' = Append(ui, Msg("info", "No high-risk students to notify.", "", 0))
                         /\ pc' = "done"
                         /\ UNCHANGED sent_count
                    ELSE /\ sent_count' = 0
                         /\ pc' = "sending"
                         /\ UNCHANGED ui
    /\ UNCHANGED <<uploads, data, filtered_data, sends, rng, aside>>

\* line 165 with the button not pressed: the run ends after the display
NoButton ==
    /\ pc = "filtered"
    /\ pc' = "done"
    /\ UNCHANGED <<uploads, data, filtered_data, high_risk_students, button_pressed,
                   config, sends, sent_count, ui, rng, aside>>

\* a loop without its handler: no exception of send_email is taken
ExceptNothing(e) == FALSE

\* "except Exception as e" of the loop: the exceptions of send_email the
\* handler takes
ExceptSendFailure(e) == TRUE

\* lines 174-195, one iteration: send_email for the next high-risk row either
\* returns or raises (the SMTP server decides)
SendEmail ==
    /\ pc = "sending"
    /\ Len(sends) < Len(high_risk_students)
    /\ LET idx == high_risk_students[Len(sends) + 1]
       IN  \E ok \in BOOLEAN :
             /\ sends' = Append(sends, [idx |-> idx, ok |-> ok])
             /\ IF ok
                THEN /\ ui' = Append(ui, Msg("write", "Email sent for", "", idx))
                     /\ sent_count' = sent_count + 1
                     /\ pc' = "sending"
                ELSE IF ExceptSendFailure("SMTPException")
                THEN /\ ui' = Append(ui, Msg("error", "Failed to send email for", "SMTPException", idx))
                     /\ sent_count' = sent_count
                     /\ pc' = "sending"
                ELSE /\ pc' = "crashed"
                     /\ UNCHANGED <<ui, sent_count>>
    /\ UNCHANGED <<uploads, data, filtered_data, high_risk_students, button_pressed,
                   config, rng, aside>>

\* line 196: the loop is over, the count of the e-mails sent is shown
Finish ==
    /\ pc = "sending"
    /\ Len(sends) = Len(high_risk_students)
    /\ ui' = Append(ui, Msg("success", "Emails sent for students.", "", sent_count))
    /\ pc' = "done"
    /\ UNCHANGED <<uploads, data, filtered_data, high_risk_students, button_pressed,
                   config, sends, sent_count, rng, aside>>

---------------------------------------------------------------------------
(* Dashboard runs: one run of main() from the uploads to the last e-mail.   *)
(* Each upload is absent, unreadable, or a table of the first k students of  *)
(* the register (k up to MaxStudents) that may lack one column.             *)

Init ==
    /\ attendance_file \in Uploads(AttendanceCols, {"Attendance%"}, Prefixes(MaxStudents))
    /\ test_scores_file \in Uploads(TestScoresCols, {"Test1_Score"}, Prefixes(MaxStudents))
    /\ fee_payment_file \in Uploads(FeePaymentCols, {}, Prefixes(MaxStudents))
    /\ RunStart
    /\ GeneratorStart
    /\ NoRecord

Next == Load \/ Classify \/ Filter \/ PressButton \/ NoButton \/ SendEmail \/ Finish

Spec == Init /\ [][Next]_vars

---------------------------------------------------------------------------
(* Reconciliation runs: any uploads over MaxIDs students, tables of up to   *)
(* MaxRows rows that may repeat a StudentID or lack a column; the run is     *)
(* followed through the load and the classification.                        *)

InitIngest ==
    /\ attendance_file \in
         Uploads(AttendanceCols, {"StudentID", "Attendance%"}, IdLists(MaxIDs, MaxRows))
    /\ test_scores_file \in
         Uploads(TestScoresCols, {"StudentID", "Test1_Score"}, IdLists(MaxIDs, MaxRows))
    /\ fee_payment_file \in
         Uploads(FeePaymentCols, {"StudentID"}, IdLists(MaxIDs, MaxRows))
    /\ RunStart
    /\ GeneratorStart
    /\ NoRecord

NextIngest == Load \/ Classify

SpecIngest == InitIngest /\ [][NextIngest]_vars

---------------------------------------------------------------------------
(* Properties of the reconciliation (checked under SpecIngest) *)

AllUploaded ==
    Truthy(attendance_file) /\ Truthy(test_scores_file) /\ Truthy(fee_payment_file)

\* the uploads were merged: the success message of line 111 was shown
Merged ==
    \E k \in DOMAIN ui : ui[k].text = "Data files uploaded and merged successfully."

\* an upload that cannot be read or has no StudentID column to join on
Malformed(file) == Truthy(file) /\ (~file.parses \/ "StudentID" \notin file.cols)

\* the StudentIDs an uploaded table lists
ListedIn(file) == { file.rows[k]["StudentID"] : k \in DOMAIN file.rows }

\* the StudentIDs of the union of the three source tables
SourceIDs == UNION { ListedIn(uploads[t]) : t \in 1..3 }

\* the rows of the unified table with StudentID id
RecordsOf(id) == { k \in DOMAIN data.rows : data.rows[k]["StudentID"] = id }

\* some source table supplies field c for student id
Supplied(id, c) ==
    \E t \in 1..3 : c \in uploads[t].cols /\ id \in ListedIn(uploads[t])

\* C2: after the uploads are merged, every StudentID of the union of the
\* three source tables has exactly one record in the unified table.
C2_ExactlyOneRecordPerID ==
    Merged => \A id \in SourceIDs : Cardinality(RecordsOf(id)) = 1

\* C3: after the uploads are merged, every field of the fillna dictionary is
\* set in every unified record: to the value its source table supplied, or
\* to the stated default when no source table supplied it.
C3_DefaultsFilled ==
    Merged =>
        \A k \in DOMAIN data.rows : \A c \in DOMAIN FillValues :
            /\ c \in DOMAIN data.rows[k]
            /\ data.rows[k][c] =
                 IF Supplied(data.rows[k]["StudentID"], c)
                 THEN Register(data.rows[k]["StudentID"])[c]
                 ELSE FillValues[c]

\* What the merge does guarantee: no StudentID of the source tables is
\* omitted, there are as many records for it as combinations of its rows in
\* the tables that list it, and every fillna column the unified table has
\* holds the supplied value or the default.
MergeKeepsEveryStudent ==
    Merged =>
        /\ \A id \in SourceIDs :
             Cardinality(RecordsOf(id)) =
                 LET count(t) == Cardinality({ k \in DOMAIN uploads[t].rows :
                                                 uploads[t].rows[k]["StudentID"] = id })
                     factor(t) == IF count(t) = 0 THEN 1 ELSE count(t)
                 IN  factor(1) * factor(2) * factor(3)
        /\ \A k \in DOMAIN data.rows : data.rows[k]["StudentID"] \in SourceIDs
        /\ \A k \in DOMAIN data.rows : \A c \in DOMAIN FillValues \cap data.cols :
             data.rows[k][c] =
                 IF Supplied(data.rows[k]["StudentID"], c)
                 THEN Register(data.rows[k]["StudentID"])[c]
                 ELSE FillValues[c]

\* the dataset generate_student_data(NUM_STUDENTS) returns
SyntheticData == generate_student_data(seed(0), NUM_STUDENTS).data

\* frame df without its Risk_Level column
Unclassified(df) ==
    [ cols |-> df.cols \ {"Risk_Level"},
      rows |-> [ k \in DOMAIN df.rows |->
                   [ c \in df.cols \ {"Risk_Level"} |-> df.rows[k][c] ] ] ]

\* C4: when all three files are uploaded and one of them is malformed, the
\* run does not abort: it works on generate_student_data(NUM_STUDENTS), has
\* reported the cause as an error message, and the classification labels
\* every row of that dataset.
C4_MalformedFallsBack ==
    (AllUploaded /\ (\E t \in 1..3 : Malformed(uploads[t])) /\ pc # "start") =>
        /\ pc # "crashed"
        /\ Unclassified(data) = SyntheticData
        /\ \E k \in DOMAIN ui :
             /\ ui[k].kind = "error"
             /\ ui[k].text = "Error processing uploaded files"
             /\ ui[k].cause \in {"ParserError", "KeyError"}
        /\ pc = "classified" =>
             \A k \in DOMAIN data.rows :
                 data.rows[k]["Risk_Level"] = calculate_risk(SyntheticData.rows[k])

\* witness of C4: the fee-payment table parses but has no StudentID column,
\* and the run has classified the synthetic dataset
C4_Witness ==
    /\ pc = "classified"
    /\ AllUploaded
    /\ attendance_file.parses /\ test_scores_file.parses /\ fee_payment_file.parses
    /\ "StudentID" \in attendance_file.cols
    /\ "StudentID" \notin fee_payment_file.cols
    /\ Len(data.rows) = NUM_STUDENTS

\* C5: no error escapes main().
C5_NoErrorEscapes == pc # "crashed"

---------------------------------------------------------------------------
(* Risk-rule runs: calculate_risk applied to one record, every field within *)
(* its domain, the values chosen around the thresholds of the rule.         *)

AttendanceValues == {0, 60, 74, 75, 76, 100}

AttemptsValues == {1, 3, 4, 5}

ScoreValues == {0, 50, 60, 100}

FeeDelayValues == {0, 15, 16, 30}

Record(att, attempts, t1, t2, t3, fee) ==
    [ StudentID |-> 1, Name |-> "Student_1", Standard |-> "1", Division |-> "A",
      Test1_Score |-> t1, Test2_Score |-> t2, Test3_Score |-> t3,
      Attempts |-> attempts, Fee_Delay_Days |-> fee ] @@ ("Attendance%" :> att)

InitRisk ==
    /\ row \in { Record(att, attempts, t1, t2, t3, fee) :
                   att \in AttendanceValues, attempts \in AttemptsValues,
                   t1 \in ScoreValues, t2 \in ScoreValues, t3 \in ScoreValues,
                   fee \in FeeDelayValues }
    /\ risk = ""
    /\ NoUploads
    /\ RunStart
    /\ GeneratorStart

\* line 121 for one row: the label of the record
Evaluate ==
    /\ risk = ""
    /\ risk' = calculate_risk(row)
    /\ UNCHANGED <<uploads, data, filtered_data, high_risk_students, button_pressed,
                   config, sends, sent_count, ui, pc, rng, draws, first_output,
                   last_output, row>>

NextRisk == Evaluate

SpecRisk == InitRisk /\ [][NextRisk]_vars

\* the label the rule table gives to a score
LabelOf(score) == IF score >= 4 THEN "High" ELSE IF score >= 2 THEN "Medium" ELSE "Low"

AttendancePoints == IF row["Attendance%"] < 75 THEN 2 ELSE 0

AttemptsPoints == IF row["Attempts"] > 3 THEN 2 ELSE 0

TrendPoints ==
    IF row["Test3_Score"] < row["Test2_Score"] /\ row["Test2_Score"] < row["Test1_Score"]
    THEN 1 ELSE 0

FeePoints == IF row["Fee_Delay_Days"] > 15 THEN 1 ELSE 0

\* C1: calculate_risk returns the label of the rule table: +2 for attendance
\* below 75, +2 for more than 3 attempts, +1 for strictly decreasing test
\* scores, +1 for a fee delay above 15; High from 4, Medium from 2, else
\* Low.  Attendance of exactly 75, a delay of exactly 15 and equal
\* consecutive scores add nothing.
C1_RuleTable ==
    risk # "" =>
        /\ risk = LabelOf(AttendancePoints + AttemptsPoints + TrendPoints + FeePoints)
        /\ row["Attendance%"] = 75 => risk = LabelOf(AttemptsPoints + TrendPoints + FeePoints)
        /\ row["Fee_Delay_Days"] = 15 =>
             risk = LabelOf(AttendancePoints + AttemptsPoints + TrendPoints)
        /\ (row["Test3_Score"] = row["Test2_Score"] \/ row["Test2_Score"] = row["Test1_Score"]) =>
             risk = LabelOf(AttendancePoints + AttemptsPoints + FeePoints)

\* witness of C1: a record on both boundaries with equal scores and 4
\* attempts is labelled Medium (the attempts alone count)
C1_Witness ==
    /\ risk = "Medium"
    /\ row["Attendance%"] = 75
    /\ row["Fee_Delay_Days"] = 15
    /\ row["Attempts"] = 4
    /\ row["Test2_Score"] = row["Test1_Score"]
    /\ row["Test3_Score"] < row["Test2_Score"]

---------------------------------------------------------------------------
(* Generator runs: generate_student_data called again and again, for any    *)
(* population up to MaxStudents, with up to MaxDraws draws made from the     *)
(* global generator elsewhere before each call.                             *)

\* draws made elsewhere between two calls of the generator
MaxDraws == 2

InitGen ==
    /\ GeneratorStart
    /\ NoUploads
    /\ RunStart
    /\ NoRecord

\* a call of generate_student_data(n)
Generate ==
    \E n \in 1..MaxStudents :
        LET out == generate_student_data(rng, n)
            call == [n |-> n, from |-> rng, data |-> out.data]
        IN  /\ first_output' = IF first_output = NoCall THEN call ELSE first_output
            /\ last_output' = call
            /\ rng' = out.rng
            /\ draws' = 0
            /\ UNCHANGED <<uploads, data, filtered_data, high_risk_students,
                           button_pressed, config, sends, sent_count, ui, pc, row, risk>>

\* a draw from numpy's global generator made outside generate_student_data
OtherDraw ==
    /\ draws < MaxDraws
    /\ rng' = Advance(rng)
    /\ draws' = draws + 1
    /\ UNCHANGED <<uploads, data, filtered_data, high_risk_students, button_pressed,
                   config, sends, sent_count, ui, pc, first_output, last_output,
                   row, risk>>

NextGen == Generate \/ OtherDraw

SpecGen == InitGen /\ [][NextGen]_vars

\* C9: two calls of generate_student_data with the same num_students return
\* identical datasets, whatever the generator's state before each call.
C9_Deterministic ==
    (first_output # NoCall /\ last_output.n = first_output.n) =>
        last_output.data = first_output.data

\* witness of C9: the same population generated twice, from two different
\* states of the generator
C9_Witness ==
    /\ first_output # NoCall
    /\ last_output.n = first_output.n
    /\ last_output.from # first_output.from
    /\ Len(last_output.data.rows) = MaxStudents

---------------------------------------------------------------------------
(* Properties of the notification (checked under Spec) *)

\* every configuration input holds something
ConfigPresent ==
    /\ config.smtp_server = "smtp.gmail.com"
    /\ config.smtp_port = 465
    /\ config.sender_email = "sender@school.example"
    /\ config.sender_password = "secret"
    /\ config.mentor_email = "mentor@school.example"

\* the index labels of the filtered view
InView == { filtered_data[k] : k \in DOMAIN filtered_data }

\* the High rows of the filtered view
HighInView == { k \in InView : data.rows[k]["Risk_Level"] = "High" }

\* the messages of kind `kind` with text `text`
Shown(kind, text) == { k \in DOMAIN ui : ui[k].kind = kind /\ ui[k].text = text }

\* the error messages of the notification step
NotificationErrors ==
    { k \in DOMAIN ui : ui[k].kind = "error" /\ ui[k].text # "Error processing uploaded files" }

\* C6: send_email is only ever called for a record whose Risk_Level is High.
C6_OnlyHighNotified ==
    \A k \in DOMAIN sends : data.rows[sends[k].idx]["Risk_Level"] = "High"

\* witness of C6: e-mails went out while the filtered view held a Medium and
\* a Low record as well
C6_Witness ==
    /\ pc = "done"
    /\ sends # <<>>
    /\ \E k \in InView : data.rows[k]["Risk_Level"] = "Medium"
    /\ \E k \in InView : data.rows[k]["Risk_Level"] = "Low"

\* C7: a failed send_email does not stop the loop: the run goes on to the
\* next High record, and ends with one attempt per High record of the view;
\* each failure has its own error message, and the count reported at the end
\* is the number of sends that did not fail.
C7_FailureIsolated ==
    /\ sends # <<>> => pc \in {"sending", "done"}
    /\ sent_count = Cardinality({ k \in DOMAIN sends : sends[k].ok })
    /\ \A k \in DOMAIN sends :
         ~sends[k].ok =>
             Cardinality({ m \in Shown("error", "Failed to send email for") :
                             ui[m].idx = sends[k].idx }) = 1
    /\ Cardinality(Shown("error", "Failed to send email for")) =
         Cardinality({ k \in DOMAIN sends : ~sends[k].ok })
    /\ (pc = "done" /\ button_pressed /\ ConfigPresent) =>
         /\ Len(sends) = Cardinality(HighInView)
         /\ sends # <<>> =>
              /\ ui[Len(ui)].text = "Emails sent for students."
              /\ ui[Len(ui)].idx = Cardinality({ k \in DOMAIN sends : sends[k].ok })

\* witness of C7: three High records, the second send fails, the first and
\* the third go out and the reported count is 2
C7_Witness ==
    /\ pc = "done"
    /\ Len(sends) = 3
    /\ sends[1].ok /\ ~sends[2].ok /\ sends[3].ok
    /\ ui[Len(ui)].text = "Emails sent for students."
    /\ ui[Len(ui)].idx = 2

\* C8: when the button is pressed and a configuration field is absent, no
\* send_email call is made and the notification reports exactly one error,
\* the one asking for the configuration.
C8_ConfigCheckedFirst ==
    (button_pressed /\ ~ConfigPresent) =>
        /\ sends = <<>>
        /\ pc = "done"
        /\ Cardinality(NotificationErrors) = 1
        /\ Cardinality(Shown("error", "Please fill all email configuration fields.")) = 1
        /\ Shown("success", "Emails sent for students.") = {}

\* witness of C8: only the mentor's address is absent, and the filtered view
\* holds High records
C8_Witness ==
    /\ button_pressed
    /\ config.mentor_email = ""
    /\ config.smtp_server # "" /\ config.smtp_port # 0
    /\ config.sender_email # "" /\ config.sender_password # ""
    /\ HighInView # {}
    /\ sends = <<>>

\* C10: with the configuration complete, send_email is attempted for the
\* High records of the filtered view, each once and in the view's order, and
\* for no record outside the view; at the end the attempts are as many as
\* the High records of the view.
C10_AttemptsAreHighOfView ==
    /\ \A k \in DOMAIN sends : sends[k].idx \in HighInView
    /\ \A j, k \in DOMAIN sends : j < k => sends[j].idx < sends[k].idx
    /\ (pc = "done" /\ button_pressed /\ ConfigPresent) =>
         /\ { sends[k].idx : k \in DOMAIN sends } = HighInView
         /\ Len(sends) = Cardinality(HighInView)
         /\ Cardinality(Shown("write", "Email sent for"))
              + Cardinality(Shown("error", "Failed to send email for"))
              = Cardinality(HighInView)

\* witness of C10: a High record that the filters exclude got no attempt,
\* while the High record of the view did
C10_Witness ==
    /\ pc = "done"
    /\ sends # <<>>
    /\ \E k \in DOMAIN data.rows :
         /\ data.rows[k]["Risk_Level"] = "High"
         /\ k \notin InView
         /\ \A j \in DOMAIN sends : sends[j].idx # k

=============================================================================
